---- MODULE Spec2Model ----
(***************************************************************************)
(* Auto Patch: the patch extraction and reconciliation engine.             *)
(*                                                                         *)
(* A string is a sequence of atoms.  An atom is one character (" ", "/",   *)
(* "a", ...) or, for the four literals of the block grammar, the whole     *)
(* literal ("<!-- FILE_START: ", "<!-- FILE_END: ", " -->", the fence), and,   *)
(* inside file bodies, one word.  No atom other than the three white       *)
(* space characters is white space, and no literal of the grammar occurs   *)
(* in a text except as its atom.                                           *)
(***************************************************************************)
EXTENDS Integers, Sequences, FiniteSets, TLC

VARIABLES
    arg,          \* pure-function specifications: the input drawn by Init
    ret,          \* ... and the value the function returned (NoValue before)
    fn,           \* ... and the function that was applied ("none" before)
    workspaceOpen,\* vscode.workspace.workspaceFolders is non-empty
    eol,          \* the line ending normalizeChanges selects (files.eol / os.EOL)
    disk,         \* the file system: absolute path (sequence of segments) -> content
    changes,      \* FileChangeProvider._changes
    hasChanges,   \* the 'auto-patch.hasChanges' context value last set
    objects,      \* every FileChange object handed to the tree view so far
    preview,      \* the _runPreview calls in flight, each waiting for a readFile
    applyAll,     \* the applyAll command in flight (pc, the changes still to apply)
    previews,     \* how many previews have been started
    commands,     \* how many commands have been run
    event         \* what the last handler that ran to its end (or, for applyAll, the
                  \* last applySingleChange) did and reported

vars == <<arg, ret, fn, workspaceOpen, eol, disk, changes, hasChanges,
          objects, preview, applyAll, previews, commands, event>>

----------------------------------------------------------------------------
(* Atoms *)

SP == " "
NL == "\n"
CR == "\r"
SL == "/"
BS == "\\"
DOT == "."
tS == "<!-- FILE_START: "
tE == "<!-- FILE_END: "
tC == " -->"
\* the triple backquote that opens and closes a fenced block
tF == "<fence>"

NoValue == "NoValue"

\* \s of the regular expressions and the white space of String.trim
IsWs(c) == c \in {SP, NL, CR}

----------------------------------------------------------------------------
(* String helpers (JavaScript's String methods, on sequences of atoms) *)

RECURSIVE TrimStart(_)
TrimStart(s) ==
    IF s = <<>> THEN <<>>
    ELSE IF IsWs(Head(s)) THEN TrimStart(Tail(s)) ELSE s

RECURSIVE TrimEnd(_)
TrimEnd(s) ==
    IF s = <<>> THEN <<>>
    ELSE IF IsWs(s[Len(s)]) THEN TrimEnd(SubSeq(s, 1, Len(s) - 1)) ELSE s

\* String.prototype.trim
Trim(s) == TrimEnd(TrimStart(s))

\* s.replace(/\\/g, '/')
ReplaceBackslashes(s) ==
    IF s = <<>> THEN <<>>
    ELSE [i \in 1..Len(s) |-> IF s[i] = BS THEN SL ELSE s[i]]

\* s.split(sep) for a one-character separator: at least one piece, empty pieces kept
RECURSIVE Split(_, _)
Split(s, sep) ==
    IF \E i \in 1..Len(s) : s[i] = sep
    THEN LET i == CHOOSE k \in 1..Len(s) :
                      s[k] = sep /\ \A j \in 1..(k - 1) : s[j] # sep
         IN  <<SubSeq(s, 1, i - 1)>> \o Split(SubSeq(s, i + 1, Len(s)), sep)
    ELSE <<s>>

\* segments.join(sep)
RECURSIVE Join(_, _)
Join(segs, sep) ==
    IF segs = <<>> THEN <<>>
    ELSE IF Len(segs) = 1 THEN segs[1]
    ELSE segs[1] \o <<sep>> \o Join(Tail(segs), sep)

\* .filter(segment => segment.length > 0)
NonEmptySegments(segs) == SelectSeq(segs, LAMBDA x : x # <<>>)

\* s.startsWith(p)
StartsWith(s, p) == Len(s) >= Len(p) /\ SubSeq(s, 1, Len(p)) = p

\* s.endsWith(p)
EndsWith(s, p) == Len(s) >= Len(p) /\ SubSeq(s, Len(s) - Len(p) + 1, Len(s)) = p

\* s.replace(/\/+$/, '')
RECURSIVE StripTrailingSlashes(_)
StripTrailingSlashes(s) ==
    IF s # <<>> /\ s[Len(s)] = SL
    THEN StripTrailingSlashes(SubSeq(s, 1, Len(s) - 1))
    ELSE s

----------------------------------------------------------------------------
(* path.posix, as utils.ts uses it *)

DotDot == <<DOT, DOT>>

\* normalizeString of path.posix: drop empty and '.' segments; '..' removes the
\* segment before it unless there is none or it is '..' itself, and is then kept
\* only when the path is relative
RECURSIVE normalizeString(_, _, _)
normalizeString(segs, res, allowAboveRoot) ==
    IF segs = <<>> THEN res
    ELSE LET s == Head(segs)
             rest == Tail(segs)
         IN  IF s = <<>> \/ s = <<DOT>>
             THEN normalizeString(rest, res, allowAboveRoot)
             ELSE IF s = DotDot
             THEN IF res # <<>> /\ res[Len(res)] # DotDot
                  THEN normalizeString(rest, SubSeq(res, 1, Len(res) - 1), allowAboveRoot)
                  ELSE IF allowAboveRoot
                  THEN normalizeString(rest, Append(res, s), allowAboveRoot)
                  ELSE normalizeString(rest, res, allowAboveRoot)
             ELSE normalizeString(rest, Append(res, s), allowAboveRoot)

\* The end of path.posix.normalize: the normalized segments, joined, with the
\* leading and the trailing slash of the input
AssembleNormalized(body, isAbsolute, trailingSeparator) ==
    IF body = <<>>
    THEN IF isAbsolute THEN <<SL>>
         ELSE IF trailingSeparator THEN <<DOT, SL>> ELSE <<DOT>>
    ELSE (IF isAbsolute THEN <<SL>> ELSE <<>>) \o body
         \o (IF trailingSeparator THEN <<SL>> ELSE <<>>)

\* path.posix.normalize
posixNormalize(p) ==
    IF p = <<>> THEN <<DOT>>
    ELSE AssembleNormalized(Join(normalizeString(Split(p, SL), <<>>, p[1] # SL), SL),
                            p[1] = SL, p[Len(p)] = SL)

\* path.isAbsolute (posix)
isAbsolutePath(p) == p # <<>> /\ p[1] = SL

\* The length of the longest common prefix of two segment lists
RECURSIVE CommonPrefixLen(_, _)
CommonPrefixLen(a, b) ==
    IF a = <<>> \/ b = <<>> \/ Head(a) # Head(b) THEN 0
    ELSE 1 + CommonPrefixLen(Tail(a), Tail(b))

\* path.relative(from, to) of two normalized absolute paths, given as segment
\* lists; the result is a string
pathRelative(from, to) ==
    LET c == CommonPrefixLen(from, to)
        ups == [i \in 1..(Len(from) - c) |-> DotDot]
        downs == SubSeq(to, c + 1, Len(to))
    IN  Join((IF Len(from) = c THEN <<>> ELSE ups) \o downs, SL)

\* path.resolve(baseDir, p) for an absolute baseDir (segment list) and a relative
\* p, and vscode.Uri.joinPath(root, ...segments): the segment list of the result
joinPath(base, p) ==
    normalizeString(base \o Split(p, SL), <<>>, FALSE)

----------------------------------------------------------------------------
(* utils.ts: sanitizeFilePath *)

\* normalized === '.' || normalized === '' gives the invalid value
InvalidIfDot(normalized) ==
    IF normalized = <<DOT>> \/ normalized = <<>> THEN <<>> ELSE normalized

\* sanitizeFilePath after the trim
SanitizeTrimmed(trimmed) ==
    IF trimmed = <<>> THEN <<>>
    ELSE InvalidIfDot(StripTrailingSlashes(posixNormalize(ReplaceBackslashes(trimmed))))

\* sanitizeFilePath after the trim, without the conversion of backslashes
SanitizeTrimmedKeepBackslashes(trimmed) ==
    IF trimmed = <<>> THEN <<>>
    ELSE InvalidIfDot(StripTrailingSlashes(posixNormalize(trimmed)))

sanitizeKeepBackslashes(filePath) == SanitizeTrimmedKeepBackslashes(Trim(filePath))

sanitizeFilePath(filePath) == SanitizeTrimmed(Trim(filePath))

----------------------------------------------------------------------------
(* parser.ts: the pattern of parseLLMResponse                              *)
(*   <!-- FILE_START: (.*?) -->\s*```[^\r\n]*\r?\n([\s\S]*?)\s*```\s*<!-- FILE_END: \1 -->  *)

\* The atom at index i, NoValue beyond the ends
At(text, i) == IF i \in 1..Len(text) THEN text[i] ELSE NoValue

Min(S) == CHOOSE x \in S : \A y \in S : x <= y

\* \s* from index i: the index of the first atom that is not white space (the
\* length plus one when there is none).  \s* is greedy and what follows it in
\* the pattern is never white space, so it takes the whole run.
SkipWs(text, i) ==
    IF \E j \in i..Len(text) : ~IsWs(text[j])
    THEN Min({j \in i..Len(text) : ~IsWs(text[j])})
    ELSE Len(text) + 1

\* ```[^\r\n]*\r?\n with the fence at index f: the index after the line break
\* that ends the fence line, 0 when the pattern does not match there
AfterFenceLine(text, f) ==
    IF At(text, f) # tF THEN 0
    ELSE LET j == IF \E k \in (f + 1)..Len(text) : text[k] \in {NL, CR}
                  THEN Min({k \in (f + 1)..Len(text) : text[k] \in {NL, CR}})
                  ELSE Len(text) + 1
         IN  IF At(text, j) = NL THEN j + 1
             ELSE IF At(text, j) = CR /\ At(text, j + 1) = NL THEN j + 2
             ELSE 0

\* A closing pattern that stops at the first fence, \s*```[\s\S]*?<!-- FILE_END: \1 -->
\* (the body of a block that shows a fenced block would be cut at the inner fence)
CloseAtFirstFence(text, e, g1) ==
    LET f == SkipWs(text, e)
        gs == {g \in (f + 1)..Len(text) :
                  /\ text[g] = tE
                  /\ g + 1 + Len(g1) <= Len(text)
                  /\ SubSeq(text, g + 1, g + Len(g1)) = g1
                  /\ text[g + 1 + Len(g1)] = tC}
    IN  IF At(text, f) = tF /\ gs # {} THEN Min(gs) + Len(g1) + 2 ELSE 0

\* \s*```\s*<!-- FILE_END: \1 --> from index e, with g1 the text of group 1:
\* the index after the match, 0 when the pattern does not match there
CloseAt(text, e, g1) ==
    LET f == SkipWs(text, e)
        g == SkipWs(text, f + 1)
        h == g + 1 + Len(g1)
    IN  IF /\ At(text, f) = tF
           /\ At(text, g) = tE
           /\ h <= Len(text)
           /\ SubSeq(text, g + 1, h - 1) = g1
           /\ text[h] = tC
        THEN h + 1
        ELSE 0

\* (.*?) --> from the start marker at i: the indices of the " -->" that can end
\* group 1 ('.' matches no line terminator)
GroupOneEnds(text, i) ==
    {k \in (i + 1)..Len(text) :
        text[k] = tC /\ \A j \in (i + 1)..(k - 1) : text[j] \notin {NL, CR}}

\* The index where group 2 starts when group 1 ends before index k, 0 if the
\* opening fence line does not follow
BodyStart(text, k) == AfterFenceLine(text, SkipWs(text, k + 1))

\* The indices where group 2 can end, for the start marker at i and group 1
\* ending before index k
GroupTwoEnds(text, i, k) ==
    LET b == BodyStart(text, k)
    IN  IF b = 0 THEN {}
        ELSE {e \in b..(Len(text) + 1) : CloseAt(text, e, SubSeq(text, i + 1, k - 1)) # 0}

NoMatch == [ok |-> FALSE]

\* The match of the pattern that starts at index i: both groups are lazy, so
\* the backtracking matcher returns the shortest group 1 for which the rest can
\* match, and with it the shortest group 2
MatchAt(text, i) ==
    IF At(text, i) # tS THEN NoMatch
    ELSE LET ks == {k \in GroupOneEnds(text, i) : GroupTwoEnds(text, i, k) # {}}
         IN  IF ks = {} THEN NoMatch
             ELSE LET k == Min(ks)
                      g1 == SubSeq(text, i + 1, k - 1)
                      e == Min(GroupTwoEnds(text, i, k))
                  IN  [ok |-> TRUE, index |-> i, g1 |-> g1,
                       g2 |-> SubSeq(text, BodyStart(text, k), e - 1),
                       end |-> CloseAt(text, e, g1)]

\* while ((match = pattern.exec(text)) !== null): the leftmost match at or after
\* lastIndex, then on from its end
RECURSIVE MatchesFrom(_, _)
MatchesFrom(text, lastIndex) ==
    LET starts == {i \in lastIndex..Len(text) : MatchAt(text, i).ok}
    IN  IF starts = {} THEN <<>>
        ELSE LET m == MatchAt(text, Min(starts))
             IN  <<m>> \o MatchesFrom(text, m.end)

Matches(text) == MatchesFrom(text, 1)

----------------------------------------------------------------------------
(* parser.ts: cleanupContent *)

\* text.split(/\r?\n/): split at every LF, a CR right before the LF belonging to
\* the separator
SplitLines(text) ==
    LET raw == Split(text, NL)
    IN  [i \in 1..Len(raw) |->
            IF i < Len(raw) /\ raw[i] # <<>> /\ raw[i][Len(raw[i])] = CR
            THEN SubSeq(raw[i], 1, Len(raw[i]) - 1)
            ELSE raw[i]]

\* line.match(/^\s*/)[0].length
Indent(line) == Len(line) - Len(TrimStart(line))

\* line.substring(n)
Substring(line, n) == SubSeq(line, n + 1, Len(line))

cleanupContent(text) ==
    LET lines == SplitLines(text)
        nonEmptyLines == SelectSeq(lines, LAMBDA l : Trim(l) # <<>>)
    IN  IF nonEmptyLines = <<>> THEN <<>>
        ELSE LET minIndent == Min({Indent(nonEmptyLines[i]) : i \in 1..Len(nonEmptyLines)})
                 dedentedLines ==
                     IF minIndent > 0
                     THEN [i \in 1..Len(lines) |-> Substring(lines[i], minIndent)]
                     ELSE lines
             IN  Trim(Join(dedentedLines, NL))

----------------------------------------------------------------------------
(* parser.ts: parseLLMResponse *)

FileChangeOf(m) == [filePath |-> Trim(m.g1), newContent |-> cleanupContent(m.g2)]

parseLLMResponse(text) ==
    LET ms == Matches(text)
    IN  [i \in 1..Len(ms) |-> FileChangeOf(ms[i])]


----------------------------------------------------------------------------
(* The texts the parser is run on: sequences of pieces, each a block of the *)
(* README's format or one of the malformed blocks of parser.test.ts         *)

MaxPieces == 2

\* <!-- FILE_START: p -->, the fence line with its language tag, the body on
\* lines of its own, the closing fence, <!-- FILE_END: q -->
BlockText(p, lang, body, q) ==
    <<tS>> \o p \o <<tC, NL, tF>> \o lang \o <<NL>> \o body
           \o <<NL, tF, NL, tE>> \o q \o <<tC, NL>>

GoodPiece(p, lang, body) ==
    [kind |-> "good", payload |-> p, body |-> body, text |-> BlockText(p, lang, body, p)]

\* the end marker names another file
MismatchPiece(p, q, body) ==
    [kind |-> "mismatch", payload |-> p, body |-> body,
     text |-> BlockText(p, <<>>, body, q)]

\* no end marker
NoEndPiece(p, body) ==
    [kind |-> "noend", payload |-> p, body |-> body,
     text |-> <<tS>> \o p \o <<tC, NL, tF, NL>> \o body \o <<NL, tF, NL>>]

\* no fenced block between the markers
NoFencePiece(p, body) ==
    [kind |-> "nofence", payload |-> p, body |-> body,
     text |-> <<tS>> \o p \o <<tC, NL>> \o body \o <<NL, tE>> \o p \o <<tC, NL>>]

\* text outside any block
JunkPiece == [kind |-> "junk", payload |-> <<>>, body |-> <<>>, text |-> <<"x", SP, "y", NL>>]

\* a body that shows a fenced block of its own
FencedBody == <<"x", NL, tF, NL, "y", NL, tF, NL, "z">>

\* a body indented by its surroundings
IndentedBody == <<SP, SP, "x", NL, NL, SP, SP, SP, "y">>

Pieces ==
    { GoodPiece(<<"a">>, <<>>, <<"x">>),
      GoodPiece(<<"b">>, <<"ts">>, <<"y", NL, "z">>),
      GoodPiece(<<SP, "a">>, <<>>, IndentedBody),
      GoodPiece(<<"a">>, <<"md">>, FencedBody),
      GoodPiece(<<"b">>, <<>>, <<>>),
      MismatchPiece(<<"a">>, <<"b">>, <<"x">>),
      MismatchPiece(<<"b">>, <<"a">>, <<"y">>),
      NoEndPiece(<<"a">>, <<"x">>),
      NoFencePiece(<<"b">>, <<"y">>),
      JunkPiece }

PieceSeqs == UNION {[1..n -> Pieces] : n \in 0..MaxPieces}

RECURSIVE TextOf(_)
TextOf(ps) == IF ps = <<>> THEN <<>> ELSE Head(ps).text \o TextOf(Tail(ps))

----------------------------------------------------------------------------
(* The system at rest, for the specifications of the pure functions *)

Idle == [pc |-> "idle"]

SystemAtRest ==
    /\ workspaceOpen = TRUE
    /\ eol = <<NL>>
    /\ disk = <<>>
    /\ changes = <<>>
    /\ hasChanges = FALSE
    /\ objects = {}
    /\ preview = {}
    /\ applyAll = Idle
    /\ previews = 0
    /\ commands = 0
    /\ event = [op |-> "none"]

systemVars == <<workspaceOpen, eol, disk, changes, hasChanges,
                objects, preview, applyAll, previews, commands, event>>

----------------------------------------------------------------------------
(* SpecParse: parseLLMResponse applied to every text of up to MaxPieces pieces *)

InitParse ==
    /\ arg \in PieceSeqs
    /\ ret = <<>>
    /\ fn = "none"
    /\ SystemAtRest

Parse ==
    /\ fn = "none"
    /\ ret' = parseLLMResponse(TextOf(arg))
    /\ fn' = "parseLLMResponse"
    /\ UNCHANGED <<arg, systemVars>>

NextParse == Parse

SpecParse == InitParse /\ [][NextParse]_vars


----------------------------------------------------------------------------
(* Claims about parseLLMResponse (SpecParse) *)

Parsed == fn = "parseLLMResponse"

\* The index of the first atom a at or after index i, 0 when there is none
FirstAt(text, i, a) ==
    IF \E k \in i..Len(text) : text[k] = a
    THEN Min({k \in i..Len(text) : text[k] = a})
    ELSE 0

\* The index of the last atom a before index i, 0 when there is none
LastBefore(text, i, a) ==
    IF \E k \in 1..(i - 1) : text[k] = a
    THEN CHOOSE k \in 1..(i - 1) : text[k] = a /\ \A j \in (k + 1)..(i - 1) : text[j] # a
    ELSE 0

\* The path a marker at index i carries: the atoms up to the next " -->"
Payload(text, i) ==
    LET c == FirstAt(text, i + 1, tC)
    IN  IF c = 0 THEN SubSeq(text, i + 1, Len(text)) ELSE SubSeq(text, i + 1, c - 1)

StartMarkers(text) == {i \in 1..Len(text) : text[i] = tS}

\* The matches whose text includes the atom at index i
Covering(text, i) ==
    {j \in 1..Len(Matches(text)) : Matches(text)[j].index <= i /\ i < Matches(text)[j].end}

\* The start marker at i is followed by an end marker, and the first one names
\* another path
EndMarkerDiffers(text, i) ==
    LET m == FirstAt(text, i + 1, tE)
    IN  m # 0 /\ Payload(text, m) # Payload(text, i)

\* C2: a start marker whose end marker carries a different path than the start
\* marker yields no block
C2_MismatchedEndYieldsNoBlock ==
    Parsed =>
        \A i \in StartMarkers(TextOf(arg)) :
            EndMarkerDiffers(TextOf(arg), i) =>
                \A j \in 1..Len(ret) : Matches(TextOf(arg))[j].index # i

\* The start marker at i is closed by an end marker of its own path before the
\* next start marker (or the end of the text)
ClosedByOwnEnd(text, i) ==
    LET n == FirstAt(text, i + 1, tS)
        stop == IF n = 0 THEN Len(text) + 1 ELSE n
    IN  \E m \in (i + 1)..(stop - 1) :
            text[m] = tE /\ Payload(text, m) = Payload(text, i)

\* C3: an incomplete block (a start marker not closed by its own end marker
\* before the next start marker or the end of the text) produces no block, and
\* none of its text is part of a returned block
C3_IncompleteBlockIgnored ==
    Parsed =>
        \A i \in StartMarkers(TextOf(arg)) :
            ~ClosedByOwnEnd(TextOf(arg), i) => Covering(TextOf(arg), i) = {}

\* The blocks of the well-formed pieces, each parsed on its own, in order
RECURSIVE BlocksOfGoodPieces(_)
BlocksOfGoodPieces(ps) ==
    IF ps = <<>> THEN <<>>
    ELSE (IF Head(ps).kind = "good" THEN parseLLMResponse(Head(ps).text) ELSE <<>>)
         \o BlocksOfGoodPieces(Tail(ps))

GoodPieces(ps) == SelectSeq(ps, LAMBDA q : q.kind = "good")

\* C4: exactly one block per well-formed block, in the order of the start
\* markers, each with the trimmed payload as its path; the malformed blocks
\* of the text neither remove nor alter the blocks of the well-formed ones
C4_OneBlockPerWellFormedBlock ==
    Parsed =>
        /\ ret = BlocksOfGoodPieces(arg)
        /\ Len(ret) = Len(GoodPieces(arg))
        /\ \A j \in 1..Len(ret) : ret[j].filePath = Trim(GoodPieces(arg)[j].payload)

\* The number of fences in a string
FenceCount(s) == Cardinality({i \in 1..Len(s) : s[i] = tF})

\* The text between the line of the first fence after the start marker of
\* match m and the last fence before the end marker that ends m
BetweenOuterFences(text, m) ==
    LET open == FirstAt(text, m.index + 1, tF)
        endMarker == m.end - Len(m.g1) - 2
        close == LastBefore(text, endMarker, tF)
    IN  SubSeq(text, AfterFenceLine(text, open), close - 1)

\* C5: the content of a block is what lies between the first fence after its
\* start marker and the last fence before its end marker, so fences inside the
\* body are kept and the content is not cut at the first inner fence
C5_OutermostFencePair ==
    Parsed =>
        /\ \A j \in 1..Len(ret) :
              LET inner == BetweenOuterFences(TextOf(arg), Matches(TextOf(arg))[j])
              IN  /\ ret[j].newContent = cleanupContent(inner)
                  /\ FenceCount(ret[j].newContent) = FenceCount(inner)
        /\ (Len(arg) = 1 /\ arg[1].kind = "good" /\ arg[1].body = FencedBody)
              => ret = <<[filePath |-> <<"a">>, newContent |-> FencedBody]>>

\* C5 witness: the block whose body shows a fenced block was parsed, and its
\* content holds the two inner fences
C5_Witness ==
    /\ Parsed
    /\ Len(arg) = 1 /\ arg[1].kind = "good" /\ arg[1].body = FencedBody
    /\ Len(ret) = 1 /\ FenceCount(ret[1].newContent) = 2


----------------------------------------------------------------------------
(* SpecSan: sanitizeFilePath applied to every path of up to MaxPathLen      *)
(* characters, and to the paths of the tests in the utils suite             *)

MaxPathLen == 5

PathChars == {"a", DOT, SL, BS, SP}

SeqsUpTo(S, n) == UNION {[1..k -> S] : k \in 0..n}

\* ' src\app.ts '
RawSrcApp == <<SP, "s", "r", "c", BS, "a", "p", "p", DOT, "t", "s", SP>>
\* 'folder//sub///file.ts'
RawDuplicateSlashes == <<"f", SL, SL, "s", SL, SL, SL, "f", DOT, "t", "s">>
\* 'folder/sub/'
RawTrailingSlash == <<"f", SL, "s", SL>>
\* '../up/file.ts'
RawParent == <<DOT, DOT, SL, "u", "p", SL, "f", DOT, "t", "s">>

SanInputs ==
    SeqsUpTo(PathChars, MaxPathLen)
        \cup {RawSrcApp, RawDuplicateSlashes, RawTrailingSlash, RawParent}

InitSan ==
    /\ arg \in SanInputs
    /\ ret = <<>>
    /\ fn = "none"
    /\ SystemAtRest

Sanitize ==
    /\ fn = "none"
    /\ ret' = sanitizeFilePath(arg)
    /\ fn' = "sanitizeFilePath"
    /\ UNCHANGED <<arg, systemVars>>

NextSan == Sanitize

SpecSan == InitSan /\ [][NextSan]_vars

----------------------------------------------------------------------------
(* Claims about sanitizeFilePath (SpecSan) *)

Sanitized == fn = "sanitizeFilePath"

\* The pipeline of the specification: trim, backslashes to slashes, lexical
\* normalization, strip a single trailing slash
ReferencePipeline(raw) ==
    LET n == posixNormalize(ReplaceBackslashes(Trim(raw)))
    IN  IF n # <<>> /\ n[Len(n)] = SL THEN SubSeq(n, 1, Len(n) - 1) ELSE n

ReferenceInvalid(raw) ==
    Trim(raw) = <<>> \/ ReferencePipeline(raw) \in {<<DOT>>, <<>>}

\* A forward-slash path in lexically normal form: no backslash, no trailing
\* slash, no duplicate slash, no '.' segment, '..' segments only at the front
\* of a relative path
LexicallyNormal(p) ==
    LET segs == Split(p, SL)
    IN  /\ \A i \in 1..Len(p) : p[i] # BS
        /\ p # <<>> /\ p[Len(p)] # SL
        /\ \A i \in 1..Len(segs) : segs[i] = <<>> => i = 1
        /\ \A i \in 1..Len(segs) : segs[i] # <<DOT>>
        /\ \A i \in 2..Len(segs) : segs[i] = DotDot => segs[i - 1] = DotDot

\* C8: sanitizeFilePath equals the reference pipeline; it returns the invalid
\* value '' exactly when the input is empty or all white space or the result is
\* '.' or empty; a valid result is in lexically normal form; the four examples
C8_SanitizeIsReferencePipeline ==
    Sanitized =>
        /\ (ret = <<>>) <=> ReferenceInvalid(arg)
        /\ ~ReferenceInvalid(arg) => ret = ReferencePipeline(arg)
        /\ ret # <<>> => LexicallyNormal(ret)
        /\ arg = RawSrcApp => ret = <<"s", "r", "c", SL, "a", "p", "p", DOT, "t", "s">>
        /\ arg = RawDuplicateSlashes => ret = <<"f", SL, "s", SL, "f", DOT, "t", "s">>
        /\ arg = RawTrailingSlash => ret = <<"f", SL, "s">>
        /\ arg = RawParent => ret = arg

\* C8 witness: a path with a backslash, a duplicate slash and a trailing slash
\* was sanitized to a valid path
C8_Witness ==
    /\ Sanitized
    /\ arg = <<"a", BS, SL, "a", SL>>
    /\ ret = <<"a", SL, "a">>


----------------------------------------------------------------------------
(* utils.ts: resolveWorkspaceFileUri and applySingleChange *)

\* vscode.workspace.workspaceFolders[0].uri.fsPath, as a segment list: /w
Root == << <<"w">> >>

\* process.cwd(), the base directory when no workspace is open
Cwd == Root

\* The segment list of an absolute path string
SegmentsOf(p) == NonEmptySegments(Split(p, SL))

\* relativePath.startsWith('..') || path.isAbsolute(relativePath)
EscapesRoot(relativePath) ==
    StartsWith(relativePath, DotDot) \/ isAbsolutePath(relativePath)

\* throw new Error(...)
Thrown(error) == [ok |-> FALSE, error |-> error]

\* return fileUri
Resolved(fsPath) == [ok |-> TRUE, error |-> "none", fsPath |-> fsPath]

\* A resolution that accepts every joined target
AcceptAnyTarget(fsPath) == Resolved(fsPath)

\* The containment check of resolveWorkspaceFileUri on the joined target
CheckContainment(fsPath) ==
    IF EscapesRoot(pathRelative(Root, fsPath))
    THEN Thrown("PathTraversal")
    ELSE Resolved(fsPath)

\* resolveWorkspaceFileUri from the sanitized path and its segments on
ResolveSegments(sanitizedPath, pathSegments) ==
    IF sanitizedPath = <<>> \/ pathSegments = <<>>
    THEN Thrown("InvalidPath")
    ELSE CheckContainment(joinPath(Root, Join(pathSegments, SL)))

\* resolveWorkspaceFileUri from the sanitized path on
ResolveSanitized(sanitizedPath) ==
    ResolveSegments(sanitizedPath, SegmentsOf(sanitizedPath))

\* resolveWorkspaceFileUri(filePath), with `open` whether a workspace folder is
\* open: the file's absolute path, or the error thrown
resolveWorkspaceFileUri(filePath, open) ==
    IF ~open THEN Thrown("NoWorkspace")
    ELSE ResolveSanitized(sanitizeFilePath(filePath))

\* The outcomes of the two file system calls of applySingleChange
IoOutcomes == {"ok", "createDirectoryFails", "writeFileFails"}

\* The file system after fs.writeFile(path, content)
WriteFile(d, path, content) ==
    [q \in DOMAIN d \cup {path} |-> IF q = path THEN content ELSE d[q]]

\* applySingleChange after resolveWorkspaceFileUri gave r, with the file system
\* answering `io`
WriteResolved(r, change, io, d) ==
    IF ~r.ok THEN [error |-> r.error, disk |-> d]
    ELSE IF io \in {"createDirectoryFails", "writeFileFails"}
    THEN [error |-> "IO", disk |-> d]
    ELSE [error |-> "none", disk |-> WriteFile(d, r.fsPath, change.newContent)]

\* applySingleChange(change): the error thrown ("none" when it returns) and the
\* files of the disk after (directories are not part of the disk)
applySingleChange(change, io, open, d) ==
    WriteResolved(resolveWorkspaceFileUri(change.filePath, open), change, io, d)

----------------------------------------------------------------------------
(* utils.ts: normalizeChanges *)

LF == <<NL>>
CRLF == <<CR, NL>>

\* s.replace(/\r\n/g, '\n')
RECURSIVE ReplaceCrLf(_)
ReplaceCrLf(s) ==
    IF s = <<>> THEN <<>>
    ELSE IF Len(s) >= 2 /\ s[1] = CR /\ s[2] = NL
    THEN <<NL>> \o ReplaceCrLf(SubSeq(s, 3, Len(s)))
    ELSE <<Head(s)>> \o ReplaceCrLf(Tail(s))

\* s.replace(/\n/g, '\r\n')
RECURSIVE ReplaceLfByCrLf(_)
ReplaceLfByCrLf(s) ==
    IF s = <<>> THEN <<>>
    ELSE (IF Head(s) = NL THEN CRLF ELSE <<Head(s)>>) \o ReplaceLfByCrLf(Tail(s))

\* The resolved path when it lies under the workspace root (or when no
\* workspace is open), <<>> for no file
ContainedOrNone(resolvedPath, open) ==
    IF open /\ EscapesRoot(pathRelative(Root, resolvedPath)) THEN <<>> ELSE resolvedPath

\* The file whose trailing newlines normalizeChanges mirrors: an absolute path
\* (segment list), or <<>> when it looks at no file
existingFilePath(sanitizedPath, open) ==
    IF isAbsolutePath(sanitizedPath) THEN SegmentsOf(sanitizedPath)
    ELSE ContainedOrNone(joinPath(IF open THEN Root ELSE Cwd, sanitizedPath), open)

\* existingContent: the content of the file when it exists and can be read
existingContent(path, d, readFails) ==
    IF path # <<>> /\ path \in DOMAIN d /\ ~readFails
    THEN [defined |-> TRUE, content |-> d[path]]
    ELSE [defined |-> FALSE]

\* The trailing newlines of the existing file, or one for a new non-empty file
withTrailingNewlines(newContent, existing) ==
    IF existing.defined
    THEN IF EndsWith(existing.content, CRLF \o CRLF) \/ EndsWith(existing.content, <<NL, NL>>)
         THEN newContent \o <<NL, NL>>
         ELSE IF EndsWith(existing.content, CRLF) \/ EndsWith(existing.content, LF)
         THEN newContent \o <<NL>>
         ELSE newContent
    ELSE IF newContent # <<>> THEN newContent \o <<NL>> ELSE newContent

\* Normalize to LF first, then apply the target EOL
applyEol(content, e) ==
    IF e = CRLF THEN ReplaceLfByCrLf(ReplaceCrLf(content)) ELSE ReplaceCrLf(content)

\* The content of one normalized change
finalContent(newContent, sanitizedPath, d, e, open, readFails) ==
    applyEol(withTrailingNewlines(newContent,
                 existingContent(existingFilePath(sanitizedPath, open), d, readFails)), e)

\* One pass of the loop of normalizeChanges: nothing for an invalid path
\* (continue), else the change pushed
NormalizeOne(change, sanitizedPath, d, e, open, readFails) ==
    IF sanitizedPath = <<>> THEN <<>>
    ELSE <<[filePath |-> sanitizedPath,
            newContent |-> finalContent(change.newContent, sanitizedPath, d, e, open, readFails)]>>

\* normalizeChanges that gives up at the first invalid path
RECURSIVE normalizeUntilInvalid(_, _, _, _, _)
normalizeUntilInvalid(cs, d, e, open, readFails) ==
    IF cs = <<>> THEN <<>>
    ELSE IF sanitizeFilePath(Head(cs).filePath) = <<>> THEN <<>>
    ELSE NormalizeOne(Head(cs), sanitizeFilePath(Head(cs).filePath), d, e, open, readFails)
         \o normalizeUntilInvalid(Tail(cs), d, e, open, readFails)

\* normalizeChanges(changes) on the file system d, with e the line ending
\* selected, `open` whether a workspace folder is open and readFails whether
\* reading an existing file throws
RECURSIVE normalizeChanges(_, _, _, _, _)
normalizeChanges(cs, d, e, open, readFails) ==
    IF cs = <<>> THEN <<>>
    ELSE NormalizeOne(Head(cs), sanitizeFilePath(Head(cs).filePath), d, e, open, readFails)
         \o normalizeChanges(Tail(cs), d, e, open, readFails)

----------------------------------------------------------------------------
(* SpecNorm: normalizeChanges applied to every list of up to MaxCandidates   *)
(* candidates                                                               *)

MaxCandidates == 2

\* a valid path, '.', a blank path, a path that leaves the root, an absolute
\* path, a Windows path, a directory path
CandidatePaths ==
    {<<"a">>, <<DOT>>, <<SP>>, <<DOT, DOT, SL, "u">>, <<SL, "a">>, <<"d", BS, "b">>,
     <<"b", SL>>}

Candidates == [filePath : CandidatePaths, newContent : {<<"x">>, <<"y">>}]

CandidateLists == UNION {[1..n -> Candidates] : n \in 0..MaxCandidates}

\* The file systems normalizeChanges looks at
NormDisks ==
    { <<>>,
      [q \in {Root \o << <<"a">> >>, << <<"a">> >>} |->
          IF q = << <<"a">> >> THEN <<"q", NL, NL>> ELSE <<"q", NL>>] }

InitNorm ==
    /\ arg \in [cs : CandidateLists, d : NormDisks, e : {LF, CRLF}, open : BOOLEAN,
                readFails : BOOLEAN]
    /\ ret = <<>>
    /\ fn = "none"
    /\ SystemAtRest

Normalize ==
    /\ fn = "none"
    /\ ret' = normalizeChanges(arg.cs, arg.d, arg.e, arg.open, arg.readFails)
    /\ fn' = "normalizeChanges"
    /\ UNCHANGED <<arg, systemVars>>

NextNorm == Normalize

SpecNorm == InitNorm /\ [][NextNorm]_vars

----------------------------------------------------------------------------
(* Claims about normalizeChanges (SpecNorm) *)

Normalized == fn = "normalizeChanges"

\* C7: every FileChange returned by normalizeChanges has a relative
\* forward-slash path: it never starts with '/' and contains no backslash
C7_NormalizedPathsRelative ==
    Normalized =>
        \A j \in 1..Len(ret) :
            /\ ret[j].filePath[1] # SL
            /\ \A k \in 1..Len(ret[j].filePath) : ret[j].filePath[k] # BS

\* The candidates whose path does not sanitize to the invalid value
ValidCandidates(cs) == SelectSeq(cs, LAMBDA c : sanitizeFilePath(c.filePath) # <<>>)

\* C9: normalizeChanges drops every candidate whose path sanitizes to invalid
\* and returns all the others, in their input order, each with its sanitized
\* path and its own content
C9_InvalidCandidatesDropped ==
    Normalized =>
        /\ Len(ret) = Len(ValidCandidates(arg.cs))
        /\ \A j \in 1..Len(ret) :
              /\ ret[j].filePath = sanitizeFilePath(ValidCandidates(arg.cs)[j].filePath)
              /\ ret[j].filePath # <<>>
              /\ StartsWith(ret[j].newContent, ValidCandidates(arg.cs)[j].newContent)

\* C9 witness: an invalid candidate came before a valid one, and the valid one
\* was returned
C9_Witness ==
    /\ Normalized
    /\ arg.cs = <<[filePath |-> <<DOT>>, newContent |-> <<"x">>],
                  [filePath |-> <<"a">>, newContent |-> <<"y">>]>>
    /\ Len(ret) = 1
    /\ ret[1].filePath = <<"a">>

----------------------------------------------------------------------------
(* SpecContent: the content of one block through cleanupContent and then    *)
(* normalizeChanges, and through both again                                 *)

MaxBodyLen == 4

MaxPasses == 2

BodyChars == {"a", SP, NL}

\* bodies with carriage returns: CR LF line ends, and lines that end with one
\* or two CR before their CR LF
BodyCrLf == <<"a", CR, NL, "b">>
BodyCrCrLf == <<"a", CR, CR, NL, "b">>
BodyCrCrCrLf == <<"a", CR, CR, CR, NL, "b">>
\* a first line indented more than the second, both indented
BodyIndentedFirst == <<SP, SP, "a", NL, SP, "b">>

Bodies ==
    SeqsUpTo(BodyChars, MaxBodyLen)
        \cup {BodyCrLf, BodyCrCrLf, BodyCrCrCrLf, BodyIndentedFirst}

\* the path a of the workspace, as a relative and as an absolute path
ContentPaths == {<<"a">>, <<SL, "a">>}

\* the file a of the workspace root, and the file a of the file system root
InsideA == Root \o << <<"a">> >>
OutsideA == << <<"a">> >>

\* The ends an existing file can have: no newline, one, a blank line, more,
\* with LF, with CR LF and with both
FileEnds ==
    { <<"q">>, <<"q", NL>>, <<"q", CR, NL>>, <<"q", NL, NL>>, <<"q", CR, NL, CR, NL>>,
      <<"q", NL, CR, NL>>, <<"q", NL, NL, NL>> }

\* The file system with the contents `inside` and `outside` of the two files,
\* each a set of at most one content
ContentDisk(inside, outside) ==
    [q \in {p \in {InsideA, OutsideA} :
                (p = InsideA /\ inside # {}) \/ (p = OutsideA /\ outside # {})} |->
        IF q = InsideA THEN CHOOSE c \in inside : TRUE ELSE CHOOSE c \in outside : TRUE]

ContentDisks ==
    {ContentDisk(inside, outside) :
        inside \in {{}} \cup {{c} : c \in FileEnds},
        outside \in {{}, {<<"q">>}, {<<"q", NL, NL>>}}}

InitContent ==
    /\ arg \in [text : Bodies, filePath : ContentPaths, d : ContentDisks,
                e : {LF, CRLF}, open : BOOLEAN]
    /\ ret = <<>>
    /\ fn = "none"
    /\ SystemAtRest

\* parseLLMResponse's cleanupContent(rawContent), of the body or of the content
\* normalized last
Cleanup ==
    /\ fn \in {"none", "normalizeChanges"}
    /\ Len(ret) < 2 * MaxPasses
    /\ ret' = Append(ret, cleanupContent(IF ret = <<>> THEN arg.text ELSE ret[Len(ret)]))
    /\ fn' = "cleanupContent"
    /\ UNCHANGED <<arg, systemVars>>

\* normalizeChanges of the one candidate with the content cleaned last
NormalizeContent ==
    /\ fn = "cleanupContent"
    /\ ret' = Append(ret,
                  normalizeChanges(<<[filePath |-> arg.filePath, newContent |-> ret[Len(ret)]]>>,
                                   arg.d, arg.e, arg.open, FALSE)[1].newContent)
    /\ fn' = "normalizeChanges"
    /\ UNCHANGED <<arg, systemVars>>

NextContent == Cleanup \/ NormalizeContent

SpecContent == InitContent /\ [][NextContent]_vars

----------------------------------------------------------------------------
(* Claims about the content policy (SpecContent) *)

\* normalizeChanges has just returned; ret ends with the content it was given
\* and the content it returned
ContentNormalized == fn = "normalizeChanges"
GivenContent == ret[Len(ret) - 1]
ReturnedContent == ret[Len(ret)]

\* The file a change of the path is applied to: the file resolveWorkspaceFileUri
\* resolves, or the file under the working directory when no workspace is open
TargetOf(filePath, open) ==
    IF open THEN resolveWorkspaceFileUri(filePath, TRUE).fsPath
    ELSE existingFilePath(filePath, FALSE)

TargetExists == TargetOf(arg.filePath, arg.open) \in DOMAIN arg.d

\* The number of newlines (LF or CR LF) a content ends with
RECURSIVE TrailingNewlines(_)
TrailingNewlines(s) ==
    IF EndsWith(s, CRLF) THEN 1 + TrailingNewlines(SubSeq(s, 1, Len(s) - 2))
    ELSE IF EndsWith(s, LF) THEN 1 + TrailingNewlines(SubSeq(s, 1, Len(s) - 1))
    ELSE 0

\* The content ends with exactly n newlines, each the line ending e
EndsWithEols(s, n, e) ==
    /\ TrailingNewlines(s) = n
    /\ n >= 1 => EndsWith(s, e)
    /\ n >= 2 => EndsWith(s, e \o e)

\* C11: for a candidate whose target file exists and whose content has no
\* trailing newline, the returned content ends as the existing file does: with
\* no newline when the file ends with none, with exactly one target line
\* ending when it ends with one newline, with exactly two when it ends with a
\* blank line (two or more newlines)
C11_MirrorsExistingTrailingNewlines ==
    (ContentNormalized /\ TargetExists /\ TrailingNewlines(GivenContent) = 0) =>
        EndsWithEols(ReturnedContent,
                     Min({2, TrailingNewlines(arg.d[TargetOf(arg.filePath, arg.open)])}),
                     arg.e)

\* C12: for a candidate whose target file does not exist, the returned content
\* is the empty content when the content is empty, and ends with exactly one
\* target line ending when it is not
C12_NewFileGetsOneEol ==
    (ContentNormalized /\ ~TargetExists) =>
        IF GivenContent = <<>> THEN ReturnedContent = <<>>
        ELSE EndsWithEols(ReturnedContent, 1, arg.e)

\* C13: the returned content uses the target line ending only: for LF it holds
\* no CR LF pair, for CR LF every LF comes right after exactly one CR
C13_SingleLineEnding ==
    ContentNormalized =>
        \A k \in 1..Len(ReturnedContent) :
            ReturnedContent[k] = NL =>
                IF arg.e = LF THEN k = 1 \/ ReturnedContent[k - 1] # CR
                ELSE /\ k > 1 /\ ReturnedContent[k - 1] = CR
                     /\ k > 2 => ReturnedContent[k - 2] # CR

\* cleanupContent has just returned; Raw is the text it was given
ContentCleaned == fn = "cleanupContent"
Raw == IF Len(ret) = 1 THEN arg.text ELSE ret[Len(ret) - 1]
Cleaned == ret[Len(ret)]

\* The lines of a raw text that are not blank, and those of a result (whose
\* lines are joined by LF)
NonBlankLines(text) == SelectSeq(SplitLines(text), LAMBDA l : Trim(l) # <<>>)
NonBlankResultLines(text) == SelectSeq(Split(text, NL), LAMBDA l : Trim(l) # <<>>)

\* The minimum leading white space of the non-blank lines
MinIndentOf(text) ==
    Min({Indent(NonBlankLines(text)[i]) : i \in 1..Len(NonBlankLines(text))})

\* C14: the non-blank lines of the result of cleanupContent are the non-blank
\* lines of the raw text, each with exactly the minimum indentation removed
\* from its start (white space at the end of a line is not compared)
C14_DedentsByMinimumIndent ==
    (ContentCleaned /\ NonBlankLines(Raw) # <<>>) =>
        /\ Len(NonBlankResultLines(Cleaned)) = Len(NonBlankLines(Raw))
        /\ \A i \in 1..Len(NonBlankLines(Raw)) :
              TrimEnd(NonBlankResultLines(Cleaned)[i]) =
                  TrimEnd(Substring(NonBlankLines(Raw)[i], MinIndentOf(Raw)))

\* C15: with the file system and the target line ending fixed, cleanupContent
\* and normalizeChanges applied to the content they returned return it again
C15_NormalizationIdempotent ==
    (ContentNormalized /\ Len(ret) >= 4) => ReturnedContent = ret[Len(ret) - 2]

----------------------------------------------------------------------------
(* utils.ts: toVirtualDocumentUri, and providers.ts: _getDecodedPath *)

PC == "%"

\* encodeURIComponent(segment): the characters of the model that are escaped
\* become '%' and the two hexadecimal digits of their UTF-8 byte; letters,
\* digits and - _ . ! ~ * ' ( ) stay as they are
RECURSIVE encodeURIComponent(_)
encodeURIComponent(s) ==
    LET HexOf(c) == CASE c = SP -> <<"2", "0">>
                      [] c = PC -> <<"2", "5">>
                      [] c = SL -> <<"2", "F">>
                      [] c = BS -> <<"5", "C">>
    IN  IF s = <<>> THEN <<>>
        ELSE (IF Head(s) \in {SP, PC, SL, BS} THEN <<PC>> \o HexOf(Head(s)) ELSE <<Head(s)>>)
             \o encodeURIComponent(Tail(s))

\* The character of an escape %XY, for the escapes that the characters of the
\* model can form; every other '%' of the model is followed by something that
\* is not two hexadecimal digits, a malformed escape
CharOfHex ==
    (<<"2", "0">> :> SP) @@ (<<"2", "5">> :> PC) @@ (<<"2", "F">> :> SL)
    @@ (<<"5", "C">> :> BS) @@ (<<"2", "2">> :> "\"") @@ (<<"5", "2">> :> "R")
    @@ (<<"5", "5">> :> "U")

\* decodeURIComponent(s): the decoded text, or URIError thrown at a malformed
\* escape
RECURSIVE decodeURIComponent(_)
decodeURIComponent(s) ==
    IF s = <<>> THEN [ok |-> TRUE, text |-> <<>>]
    ELSE IF Head(s) # PC
    THEN LET rest == decodeURIComponent(Tail(s))
         IN  IF rest.ok THEN [ok |-> TRUE, text |-> <<Head(s)>> \o rest.text] ELSE rest
    ELSE IF Len(s) >= 3 /\ <<s[2], s[3]>> \in DOMAIN CharOfHex
    THEN LET rest == decodeURIComponent(SubSeq(s, 4, Len(s)))
         IN  IF rest.ok THEN [ok |-> TRUE, text |-> <<CharOfHex[<<s[2], s[3]>>]>> \o rest.text]
             ELSE rest
    ELSE [ok |-> FALSE]

\* The path component of vscode.Uri.parse(scheme + ':' + path): Uri.parse
\* percent-decodes the components it stores (the paths given here are outputs
\* of encodeURIComponent, which decode without error)
UriParsePath(path) ==
    LET r == decodeURIComponent(path) IN IF r.ok THEN r.text ELSE path

\* toVirtualDocumentUri(scheme, filePath).path, with `vs` whether the vscode
\* module can be loaded (it can in the extension host, it cannot in the unit
\* tests, where the fallback object carries the encoded path)
toVirtualDocumentUri(filePath, vs) ==
    LET sanitizedPath == sanitizeFilePath(filePath)
        parts == NonEmptySegments(Split(sanitizedPath, SL))
        segments == [i \in 1..Len(parts) |-> encodeURIComponent(parts[i])]
        encodedPath == <<SL>> \o Join(segments, SL)
    IN  IF vs THEN UriParsePath(encodedPath) ELSE encodedPath

\* AutoPatchFileSystemProvider._getDecodedPath(uri), from uri.path
getDecodedPath(uriPath) ==
    LET encoded == IF StartsWith(uriPath, <<SL>>) THEN Tail(uriPath) ELSE uriPath
        r == decodeURIComponent(encoded)
    IN  IF r.ok THEN r.text ELSE encoded

----------------------------------------------------------------------------
(* SpecPath: the path of a pending change, used again by the functions that   *)
(* take a change's path: the raw path of a block is sanitized by              *)
(* normalizeChanges and stored in the change; the virtual document, the       *)
(* trailing newline policy and the write target start from the stored path    *)

MaxStoredLen == 4

RawPaths == SeqsUpTo({"u", SL, SP, PC, "2", "5"}, MaxStoredLen)

InitPath ==
    /\ arg \in RawPaths
    /\ ret = <<>>
    /\ fn = "none"
    /\ SystemAtRest

\* normalizeChanges stores sanitizeFilePath(change.filePath) (utils.ts:69-73);
\* toVirtualDocumentUri and resolveWorkspaceFileUri sanitize what they are given
SanitizeAgain ==
    /\ fn = "none"
    /\ ret' = [stored |-> sanitizeFilePath(arg),
               again |-> sanitizeFilePath(sanitizeFilePath(arg))]
    /\ fn' = "sanitizeFilePath"
    /\ UNCHANGED <<arg, systemVars>>

\* notifyChanges builds the URI of a pending change, stat and readFile decode
\* its path to find the change
AddressVirtualDocument ==
    /\ fn = "none"
    /\ sanitizeFilePath(arg) # <<>>
    /\ \E vs \in BOOLEAN :
          ret' = [stored |-> sanitizeFilePath(arg),
                  vs |-> vs,
                  path |-> toVirtualDocumentUri(sanitizeFilePath(arg), vs),
                  decoded |-> getDecodedPath(toVirtualDocumentUri(sanitizeFilePath(arg), vs))]
    /\ fn' = "toVirtualDocumentUri"
    /\ UNCHANGED <<arg, systemVars>>

\* The file normalizeChanges looks at for the trailing newlines of a candidate,
\* and the file _runPreview reads and applySingleChange writes for the change
LocateFiles ==
    /\ fn = "none"
    /\ sanitizeFilePath(arg) # <<>>
    /\ ret' = [stored |-> sanitizeFilePath(arg),
               mirrored |-> existingFilePath(sanitizeFilePath(arg), TRUE),
               target |-> resolveWorkspaceFileUri(sanitizeFilePath(arg), TRUE)]
    /\ fn' = "existingFilePath"
    /\ UNCHANGED <<arg, systemVars>>

NextPath == SanitizeAgain \/ AddressVirtualDocument \/ LocateFiles

SpecPath == InitPath /\ [][NextPath]_vars

----------------------------------------------------------------------------
(* providers.ts: FileChangeProvider *)

\* _updateContext that sets the context whatever the number of entries
ContextValueAlways(list) == TRUE

\* _updateContext: the value the 'auto-patch.hasChanges' context is set to
ContextValue(list) == Len(list) > 0

\* removeChange that filters by path
removeChangeByPath(list, change) ==
    SelectSeq(list, LAMBDA c : c.filePath # change.filePath)

\* removeChange(change): this._changes.filter(c => c !== change); objects are
\* compared by identity
removeChange(list, change) == SelectSeq(list, LAMBDA c : c.id # change.id)

\* The objects of a list, as a set
ObjectsOf(list) == {list[i] : i \in 1..Len(list)}

----------------------------------------------------------------------------
(* The texts submitted for preview *)

MaxPreviews == 2

MaxCommands == 1

FileA == <<"a", DOT, "txt">>
FileB == <<"b">>
FileC == <<"c">>
Hello == <<"hello">>

\* one well-formed block
Block(p, body) == BlockText(p, <<>>, body, p)

\* the end-to-end scenario: a.txt with the body hello
TextE2E == Block(FileA, Hello)
\* a change of a.txt, then a path that leaves the workspace
PathUp == <<DOT, DOT, SL, "u">>
TextTraversal == Block(FileA, <<"x">>) \o Block(PathUp, <<"y">>)
\* two blocks for one path, the first with the content the file has
TextTwice == Block(FileB, <<"x">>) \o Block(FileB, <<"y">>)
\* prose, then a block with an empty body
TextEmptyBody == <<"x", SP, "y", NL>> \o Block(FileC, <<>>)
\* white space only
TextBlank == <<SP, NL>>

PreviewTexts ==
    {TextE2E, TextTraversal, TextTwice, TextEmptyBody, TextBlank}

\* parseLLMResponse(text) for each of these texts
ParsedPreviewTexts == [text \in PreviewTexts |-> parseLLMResponse(text)]

\* The sanitized paths of the candidates of these texts
PreviewPaths == {sanitizeFilePath(p) : p \in {FileA, PathUp, FileB, FileC}}

\* resolveWorkspaceFileUri(filePath) for each of these paths, a workspace folder
\* being open: it is a function of the path alone
ResolvedPreviewPaths == [filePath \in PreviewPaths |-> resolveWorkspaceFileUri(filePath, TRUE)]

\* resolveWorkspaceFileUri(change.filePath) for a change of a preview
resolveChange(change, open) ==
    IF ~open THEN Thrown("NoWorkspace") ELSE ResolvedPreviewPaths[change.filePath]

\* applySingleChange(change) for a change of a preview
applyPreviewChange(change, io, open, d) ==
    WriteResolved(resolveChange(change, open), change, io, d)

\* What the disk holds at the start: b in the workspace, with CR LF line
\* endings, and a file of the same name outside it; no a.txt and no c
InitialDisk ==
    [q \in {Root \o <<FileB>>, <<FileB>>} |->
        IF q = <<FileB>> THEN <<"q", NL, NL>> ELSE <<"x", CR, NL>>]

----------------------------------------------------------------------------
(* webview.ts: InputViewProvider._runPreview *)

\* The identity of the k-th object normalizeChanges returns in the n-th preview
WithIds(list, n) ==
    [k \in 1..Len(list) |->
        [id |-> <<n, k>>, filePath |-> list[k].filePath, newContent |-> list[k].newContent]]

\* A catch that drops the candidate for which resolveWorkspaceFileUri threw
DropOnThrow(pending, change) == pending

\* The pending changes after resolveWorkspaceFileUri threw for a candidate: the
\* catch leaves isDifferent true, so the candidate is pushed
OnThrow(pending, change) == Append(pending, change)

\* The for loop of _runPreview from candidate i on, up to the next await: the
\* loop stops at the first candidate whose file is read (or past the last one);
\* lookup is the outcome of the last lookup so far
RECURSIVE RunLoop(_, _, _, _)
RunLoop(normalized, i, pending, lookup) ==
    IF i > Len(normalized)
    THEN [i |-> i, pending |-> pending, lookup |-> lookup]
    ELSE IF resolveChange(normalized[i], workspaceOpen).ok
    THEN [i |-> i, pending |-> pending, lookup |-> lookup]
    ELSE RunLoop(normalized, i + 1, OnThrow(pending, normalized[i]), "throws")

\* LookupAt that compares the contents as they are
LookupAtExact(r, change, d, readFails) ==
    IF readFails THEN "error"
    ELSE IF r.fsPath \notin DOMAIN d THEN "notFound"
    ELSE IF d[r.fsPath] = change.newContent THEN "same"
    ELSE "differs"

\* What readFile of the resolved file and the comparison give for a candidate:
\* "error" when the read fails otherwise than by FileNotFound
LookupAt(r, change, d, readFails) ==
    IF readFails THEN "error"
    ELSE IF r.fsPath \notin DOMAIN d THEN "notFound"
    ELSE IF ReplaceCrLf(d[r.fsPath]) = ReplaceCrLf(change.newContent) THEN "same"
    ELSE "differs"

Lookup(change, d, readFails) ==
    LookupAt(resolveChange(change, workspaceOpen), change, d, readFails)

\* isDifferent that takes a missing file for no change
isDifferentOnlyIfExists(change, lookup) == lookup \notin {"same", "notFound"}

\* isDifferent that keeps a new file whatever its content
isDifferentAlsoEmpty(change, lookup) == lookup # "same"

\* isDifferent that takes a failed read for no change
isDifferentUnlessError(change, lookup) ==
    IF lookup \in {"same", "error"} THEN FALSE
    ELSE IF lookup = "notFound" THEN Len(change.newContent) > 0
    ELSE TRUE

\* isDifferent, for the outcome of the lookup
isDifferent(change, lookup) ==
    IF lookup = "same" THEN FALSE
    ELSE IF lookup = "notFound" THEN Len(change.newContent) > 0
    ELSE TRUE

\* The calls in flight other than call n
OtherPreviews(n) == {pv \in preview : pv.n # n}

\* The end of _runPreview that shows the message for every text
FinishPreviewAlwaysInforms(n, text, r, awaited) ==
    /\ changes' = r.pending
    /\ hasChanges' = ContextValue(r.pending)
    /\ objects' = objects \cup ObjectsOf(r.pending)
    /\ preview' = OtherPreviews(n)
    /\ event' = [op |-> "preview", error |-> "none", n |-> n, text |-> text,
                 lookup |-> r.lookup, awaited |-> awaited,
                 info |-> (Len(r.pending) = 0)]

\* The end of _runPreview: the message, setChanges(pendingChanges); awaited is
\* the candidate whose readFile the call awaited last, with the outcome
FinishPreview(n, text, r, awaited) ==
    /\ changes' = r.pending
    /\ hasChanges' = ContextValue(r.pending)
    /\ objects' = objects \cup ObjectsOf(r.pending)
    /\ preview' = OtherPreviews(n)
    /\ event' = [op |-> "preview", error |-> "none", n |-> n, text |-> text,
                 lookup |-> r.lookup, awaited |-> awaited,
                 info |-> (Len(r.pending) = 0 /\ Len(Trim(text)) > 0)]

\* Either the loop is over, or the call waits for the next readFile
ContinuePreview(n, text, normalized, r, awaited) ==
    IF r.i > Len(normalized)
    THEN FinishPreview(n, text, r, awaited)
    ELSE /\ preview' = OtherPreviews(n) \cup
                          {[n |-> n, text |-> text, normalized |-> normalized,
                            i |-> r.i, pending |-> r.pending]}
         /\ event' = [op |-> "previewAwait", error |-> "none", n |-> n, text |-> text,
                      lookup |-> r.lookup, awaited |-> awaited]
         /\ UNCHANGED <<changes, hasChanges, objects>>

\* _runPreview from the parsed and normalized candidates on
StartLoop(n, text, normalized) ==
    ContinuePreview(n, text, normalized, RunLoop(normalized, 1, <<>>, "none"),
                    [read |-> "none"])

\* _runPreview(text) up to its first await
PreviewStart(text) ==
    /\ previews < MaxPreviews
    /\ previews' = previews + 1
    /\ IF ~workspaceOpen
       THEN /\ event' = [op |-> "preview", error |-> "NoWorkspace", n |-> previews + 1,
                         text |-> text]
            /\ UNCHANGED <<changes, hasChanges, objects, preview>>
       ELSE StartLoop(previews + 1, text,
                WithIds(normalizeChanges(ParsedPreviewTexts[text], disk, eol, workspaceOpen, FALSE),
                        previews + 1))
    /\ UNCHANGED <<arg, ret, fn, workspaceOpen, eol, disk, applyAll, commands>>

\* The loop resumed with the outcome of the lookup for candidate pv.i
ResumeWith(pv, change, lookup) ==
    ContinuePreview(pv.n, pv.text, pv.normalized,
        RunLoop(pv.normalized, pv.i + 1,
                IF isDifferent(change, lookup) THEN Append(pv.pending, change) ELSE pv.pending,
                lookup),
        [read |-> lookup, change |-> change])

\* _runPreview resumed by the answer of readFile for candidate i, up to the next
\* await or to its end
PreviewResume(pv, readFails) ==
    /\ pv \in preview
    /\ ResumeWith(pv, pv.normalized[pv.i], Lookup(pv.normalized[pv.i], disk, readFails))
    /\ UNCHANGED <<arg, ret, fn, workspaceOpen, eol, disk, applyAll, previews, commands>>

----------------------------------------------------------------------------
(* SpecResubmit: one preview cycle for a text whose single block has, as its *)
(* fenced body, the content that its target file a.txt has                   *)

\* The workspace whose file a.txt has the content
DiskWith(content) == (Root \o <<FileA>>) :> content

\* The for loop of _runPreview when no read fails: the candidates kept
PendingOf(normalized, d) ==
    SelectSeq(normalized,
              LAMBDA c : LET r == resolveWorkspaceFileUri(c.filePath, TRUE)
                         IN  IF r.ok THEN isDifferent(c, LookupAt(r, c, d, FALSE))
                             ELSE TRUE)

InitResubmit ==
    /\ arg \in [content : Bodies, e : {LF, CRLF}]
    /\ ret = <<>>
    /\ fn = "none"
    /\ SystemAtRest

\* const parsed = parseLLMResponse(text)
ParseResubmitted ==
    /\ fn = "none"
    /\ ret' = parseLLMResponse(Block(FileA, arg.content))
    /\ fn' = "parseLLMResponse"
    /\ UNCHANGED <<arg, systemVars>>

\* const normalized = normalizeChanges(parsed)
NormalizeResubmitted ==
    /\ fn = "parseLLMResponse"
    /\ ret' = normalizeChanges(ret, DiskWith(arg.content), arg.e, TRUE, FALSE)
    /\ fn' = "normalizeChanges"
    /\ UNCHANGED <<arg, systemVars>>

\* the loop over normalized, up to setChanges(pendingChanges)
ReconcileResubmitted ==
    /\ fn = "normalizeChanges"
    /\ ret' = PendingOf(ret, DiskWith(arg.content))
    /\ fn' = "setChanges"
    /\ UNCHANGED <<arg, systemVars>>

NextResubmit == ParseResubmitted \/ NormalizeResubmitted \/ ReconcileResubmitted

SpecResubmit == InitResubmit /\ [][NextResubmit]_vars

----------------------------------------------------------------------------
(* commands.ts *)

\* applyChange that removes the change whether applySingleChange threw or not
ApplyChangeRemoveAlways(change, a) ==
    /\ disk' = a.disk
    /\ changes' = removeChange(changes, change)
    /\ hasChanges' = ContextValue(removeChange(changes, change))
    /\ event' = [op |-> "applyChange", error |-> a.error, change |-> change]

\* applyChange after applySingleChange ended as a
ApplyChangeWith(change, a) ==
    /\ disk' = a.disk
    /\ IF a.error = "none"
       THEN /\ changes' = removeChange(changes, change)
            /\ hasChanges' = ContextValue(removeChange(changes, change))
       ELSE UNCHANGED <<changes, hasChanges>>
    /\ event' = [op |-> "applyChange", error |-> a.error, change |-> change]

\* applyChange(item): item is any tree item the view has handed out
ApplyChange(change, io) ==
    /\ change \in objects
    /\ commands < MaxCommands
    /\ commands' = commands + 1
    /\ ApplyChangeWith(change, applyPreviewChange(change, io, workspaceOpen, disk))
    /\ UNCHANGED <<arg, ret, fn, workspaceOpen, eol, objects, preview, applyAll, previews>>

\* discardChange(item)
DiscardChange(change) ==
    /\ change \in objects
    /\ commands < MaxCommands
    /\ commands' = commands + 1
    /\ changes' = removeChange(changes, change)
    /\ hasChanges' = ContextValue(removeChange(changes, change))
    /\ event' = [op |-> "discardChange", error |-> "none", change |-> change]
    /\ UNCHANGED <<arg, ret, fn, workspaceOpen, eol, disk, objects, preview,
                   applyAll, previews>>

\* discardAll, and the webview's clear: clearInput() -> discardChanges()
DiscardAll ==
    /\ commands < MaxCommands
    /\ commands' = commands + 1
    /\ IF Len(changes) > 0
       THEN changes' = <<>> /\ hasChanges' = ContextValue(<<>>)
       ELSE UNCHANGED <<changes, hasChanges>>
    /\ event' = [op |-> "discardAll", error |-> "none"]
    /\ UNCHANGED <<arg, ret, fn, workspaceOpen, eol, disk, objects, preview,
                   applyAll, previews>>

\* applyAll up to its first await: the copy of the pending changes
ApplyAllStart ==
    /\ applyAll.pc = "idle"
    /\ commands < MaxCommands
    /\ commands' = commands + 1
    /\ IF Len(changes) = 0
       THEN /\ applyAll' = applyAll
            /\ event' = [op |-> "applyAllNothing", error |-> "none"]
       ELSE /\ applyAll' = [pc |-> "applying", queue |-> changes, total |-> Len(changes),
                            appliedCount |-> 0]
            /\ UNCHANGED event
    /\ UNCHANGED <<arg, ret, fn, workspaceOpen, eol, disk, changes, hasChanges,
                   objects, preview, previews>>

\* applyAll after applySingleChange of the next change of its copy ended as a
ApplyAllStepWith(change, a) ==
    /\ disk' = a.disk
    /\ IF a.error = "none"
       THEN /\ changes' = removeChange(changes, change)
            /\ hasChanges' = ContextValue(removeChange(changes, change))
            /\ applyAll' =
                   IF Len(applyAll.queue) = 1 THEN Idle
                   ELSE [applyAll EXCEPT !.queue = Tail(@), !.appliedCount = @ + 1]
       ELSE /\ UNCHANGED <<changes, hasChanges>>
            /\ applyAll' = Idle
    /\ event' = [op |-> "applyAll", error |-> a.error,
                 change |-> change,
                 appliedCount |-> applyAll.appliedCount + (IF a.error = "none" THEN 1 ELSE 0),
                 total |-> applyAll.total,
                 done |-> (a.error # "none" \/ Len(applyAll.queue) = 1)]

\* applyAll resumed by applySingleChange of the next change of its copy
ApplyAllStep(io) ==
    /\ applyAll.pc = "applying"
    /\ ApplyAllStepWith(Head(applyAll.queue),
                        applyPreviewChange(Head(applyAll.queue), io, workspaceOpen, disk))
    /\ UNCHANGED <<arg, ret, fn, workspaceOpen, eol, objects, preview, previews, commands>>

----------------------------------------------------------------------------
(* Spec: the extension, from activation on *)

Init ==
    /\ arg = <<>>
    /\ ret = <<>>
    /\ fn = "none"
    /\ workspaceOpen \in BOOLEAN
    /\ eol \in {LF, CRLF}
    /\ disk = InitialDisk
    /\ changes = <<>>
    /\ hasChanges = FALSE
    /\ objects = {}
    /\ preview = {}
    /\ applyAll = Idle
    /\ previews = 0
    /\ commands = 0
    /\ event = [op |-> "none"]

Next ==
    \/ \E text \in PreviewTexts : PreviewStart(text)
    \/ \E pv \in preview, readFails \in BOOLEAN : PreviewResume(pv, readFails)
    \/ \E change \in objects, io \in IoOutcomes : ApplyChange(change, io)
    \/ \E change \in objects : DiscardChange(change)
    \/ DiscardAll
    \/ ApplyAllStart
    \/ \E io \in IoOutcomes : ApplyAllStep(io)

Spec == Init /\ [][Next]_vars

----------------------------------------------------------------------------
(* Claims about the extension (Spec) *)

\* The path lies under the workspace root
UnderRoot(path) == Len(path) > Len(Root) /\ SubSeq(path, 1, Len(Root)) = Root

\* The last handler was an applySingleChange, of applyChange or of applyAll
Applied == event.op \in {"applyChange", "applyAll"}

\* The step writes the content of the applied change to its resolved target,
\* which lies under the root, and reports no error
WritesAppliedChangeInsideRoot ==
    /\ event'.op \in {"applyChange", "applyAll"}
    /\ event'.error = "none"
    /\ resolveWorkspaceFileUri(event'.change.filePath, workspaceOpen).ok
    /\ UnderRoot(resolveWorkspaceFileUri(event'.change.filePath, workspaceOpen).fsPath)
    /\ disk' = WriteFile(disk, resolveWorkspaceFileUri(event'.change.filePath, workspaceOpen).fsPath,
                         event'.change.newContent)

\* C1: applySingleChange either fails without writing anything or writes to a
\* location inside the workspace root: every step that changes the disk is the
\* write of an applied change to its resolved target under the root, so no
\* sequence of preview and apply operations writes a file outside the root
C1_WritesStayInsideRoot == [][disk' # disk => WritesAppliedChangeInsideRoot]_vars

\* C1 witness: applyAll wrote a.txt inside the root and was then refused the
\* path that leaves the root
C1_Witness ==
    /\ event.op = "applyAll"
    /\ event.error = "PathTraversal"
    /\ event.change.filePath = PathUp
    /\ Root \o <<FileA>> \in DOMAIN disk
    /\ \A q \in DOMAIN disk : UnderRoot(q) \/ q \in DOMAIN InitialDisk

\* A preview ran to its end
Previewed == event.op = "preview" /\ event.error = "none"

TraversalPaths(text) ==
    {p \in {sanitizeFilePath(ParsedPreviewTexts[text][k].filePath) :
                k \in 1..Len(ParsedPreviewTexts[text])} :
        p # <<>> /\ resolveWorkspaceFileUri(p, TRUE).error = "PathTraversal"}

\* C10 as stated: after a preview, no entry of the ChangeSet has a path that
\* resolves outside the workspace root
C10_TraversalCandidateDropped ==
    Previewed =>
        \A i \in 1..Len(changes) :
            resolveWorkspaceFileUri(changes[i].filePath, TRUE).error # "PathTraversal"

\* C10, amended: a candidate whose path resolves outside the workspace root
\* is kept by the preview cycle: after _runPreview it is an entry of the
\* ChangeSet; applying it is refused with the path traversal error
C10_TraversalCandidateKept ==
    /\ Previewed =>
          \A p \in TraversalPaths(event.text) :
              \E i \in 1..Len(changes) :
                  changes[i].filePath = p /\ changes[i].id[1] = event.n
    /\ (Applied /\ workspaceOpen /\ event.change.filePath = PathUp) =>
          event.error = "PathTraversal"

\* C10 witness: the preview of the text with a.txt and the path that leaves
\* the root ended with both as entries of the ChangeSet
C10_Witness ==
    /\ Previewed /\ event.text = TextTraversal
    /\ Len(changes) = 2
    /\ changes[1].filePath = FileA
    /\ changes[2].filePath = PathUp

----------------------------------------------------------------------------
(* Claims about the reconciliation of _runPreview (Spec) *)

\* The last handler was _runPreview resumed by the answer of readFile for the
\* candidate event.awaited.change
ReadReturned ==
    /\ event.op \in {"preview", "previewAwait"}
    /\ event.error = "none"
    /\ event.awaited.read # "none"

\* The pending changes of the call that was resumed: those of the call in
\* flight, or the ChangeSet it has just set
PendingAfter ==
    IF \E pv \in preview : pv.n = event.n
    THEN (CHOOSE pv \in preview : pv.n = event.n).pending
    ELSE changes

\* The candidate whose read was awaited is one of the pending changes
AwaitedIsPending == \E k \in 1..Len(PendingAfter) : PendingAfter[k] = event.awaited.change

\* The file of the candidate whose read was awaited
AwaitedTarget == resolveWorkspaceFileUri(event.awaited.change.filePath, workspaceOpen).fsPath

\* readFile gave the content of the file, which exists
ReadGaveContent ==
    ReadReturned /\ event.awaited.read # "error" /\ AwaitedTarget \in DOMAIN disk

\* readFile failed with FileNotFound
ReadGaveNotFound ==
    ReadReturned /\ event.awaited.read # "error" /\ AwaitedTarget \notin DOMAIN disk

\* C16: a candidate whose target file was read is left out of the pending
\* changes exactly when the content of the file and the content of the
\* candidate are equal once CR LF is replaced by LF in both
C16_SameContentExcluded ==
    ReadGaveContent =>
        (AwaitedIsPending <=>
            ReplaceCrLf(disk[AwaitedTarget]) # ReplaceCrLf(event.awaited.change.newContent))

\* C16 witness: the block for b with the content x was left out, the file
\* holding x with a CR LF line ending and the candidate x with LF
C16_Witness ==
    /\ ReadGaveContent
    /\ event.awaited.change.filePath = FileB
    /\ event.awaited.change.newContent = <<"x", NL>>
    /\ disk[AwaitedTarget] = <<"x", CR, NL>>
    /\ ~AwaitedIsPending

\* C17: a candidate whose target file does not exist is one of the pending
\* changes if and only if its content is not empty
C17_NewFileIncludedIffNonEmpty ==
    ReadGaveNotFound => (AwaitedIsPending <=> event.awaited.change.newContent # <<>>)

\* C17 witness: the block for c with the empty body was left out, c not existing
C17_Witness ==
    /\ ReadGaveNotFound
    /\ event.text = TextEmptyBody
    /\ event.awaited.change.filePath = FileC
    /\ event.awaited.change.newContent = <<>>
    /\ event.op = "preview"
    /\ changes = <<>>

\* The loop went on after the candidate whose read was awaited: the call waits
\* for the read of a later candidate, or it has ended with every candidate of
\* the text whose path leaves the root among the changes it set
LoopWentOn ==
    IF \E pv \in preview : pv.n = event.n
    THEN (CHOOSE pv \in preview : pv.n = event.n).i > event.awaited.change.id[2]
    ELSE \A p \in TraversalPaths(event.text) :
             \E k \in 1..Len(changes) : changes[k].filePath = p /\ changes[k].id[1] = event.n

\* C18: when the read of a candidate's target fails otherwise than by
\* FileNotFound, the candidate is one of the pending changes and the loop goes
\* on with the candidates after it
C18_ReadErrorIncluded ==
    (ReadReturned /\ event.awaited.read = "error") => (AwaitedIsPending /\ LoopWentOn)

\* C18 witness: the read of b failed for the first block of the text with two
\* blocks for b; the candidate is pending and the call waits for the second
C18_Witness ==
    /\ ReadReturned /\ event.awaited.read = "error"
    /\ event.text = TextTwice
    /\ event.awaited.change.id[2] = 1
    /\ event.op = "previewAwait"
    /\ AwaitedIsPending

----------------------------------------------------------------------------
(* Claims about the ChangeSet (Spec) *)

\* C19: the ChangeSet never holds two entries with the same path; after the
\* preview of the text with two blocks for b it holds one entry for b, with
\* the content of the second block
C19_OneEntryPerPath ==
    /\ \A i, j \in 1..Len(changes) : changes[i].filePath = changes[j].filePath => i = j
    /\ (Previewed /\ event.text = TextTwice) =>
           /\ Len(changes) = 1
           /\ changes[1].filePath = FileB
           /\ ReplaceCrLf(changes[1].newContent) = <<"y", NL>>

\* The step called removeChange(event'.change): discardChange, or an
\* applySingleChange that succeeded
RemoveChangeCalled ==
    \/ event'.op = "discardChange"
    \/ event'.op \in {"applyChange", "applyAll"} /\ event'.error = "none"

\* The list without its k-th entry
WithoutEntry(list, k) == SubSeq(list, 1, k - 1) \o SubSeq(list, k + 1, Len(list))

Populated(list) == Len(list) > 0

\* C21: after every setChanges, removeChange and clear the context value
\* 'auto-patch.hasChanges' is (number of entries > 0); setChanges makes the
\* ChangeSet Populated exactly for a non-empty list, clear makes it Empty, and a
\* removal leaves it Populated exactly while entries remain
C21_EmptyPopulatedMachine ==
    [][/\ hasChanges' = Populated(changes')
       /\ event'.op = "discardAll" => ~Populated(changes')
       /\ (event'.op = "preview" /\ event'.error = "none" /\ preview' # preview) =>
              (Populated(changes') <=> \E c \in objects' : c.id[1] = event'.n)
       /\ RemoveChangeCalled =>
              (Populated(changes') <=>
                  \E k \in 1..Len(changes) : changes[k] # event'.change)]_vars

\* C21 witness: the ChangeSet was set a second time, its last entry was
\* removed, and it is Empty with the context value false
C21_Witness ==
    /\ event.op = "discardChange"
    /\ previews = 2 /\ preview = {}
    /\ event.change.id[1] = 2
    /\ changes = <<>>
    /\ hasChanges = FALSE

\* The step is the end of an applyChange command
ApplyChangeEnded == event'.op = "applyChange" /\ commands' = commands + 1

\* C22: applyChange removes the change from the ChangeSet if and only if its
\* write succeeded; when applySingleChange throws, the ChangeSet and the disk
\* stay as they are and the failure is reported for that change; discardChange
\* removes the change and writes nothing
C22_ApplyRemovesIffWritten ==
    [][/\ ApplyChangeEnded =>
             IF event'.error = "none"
             THEN /\ \A k \in 1..Len(changes') : changes'[k] # event'.change
                  /\ disk' = WriteFile(disk, resolveWorkspaceFileUri(event'.change.filePath,
                                                                   workspaceOpen).fsPath,
                                       event'.change.newContent)
             ELSE changes' = changes /\ disk' = disk
       /\ (event'.op = "discardChange" /\ commands' = commands + 1) =>
             /\ \A k \in 1..Len(changes') : changes'[k] # event'.change
             /\ disk' = disk]_vars

\* C22 witness: applyChange of the entry whose path leaves the root was
\* refused, and the entry is still in the ChangeSet
C22_Witness ==
    /\ event.op = "applyChange"
    /\ event.error = "PathTraversal"
    /\ \E k \in 1..Len(changes) : changes[k] = event.change

\* The text has a character that is not white space
NotBlank(text) == \E k \in 1..Len(text) : ~IsWs(text[k])

\* C23: a preview that ends with no pending change shows the message 'No
\* changes to apply' if and only if the text is not empty or white space only
C23_MessageIffNotBlank ==
    (Previewed /\ Len(changes) = 0) => (event.info <=> NotBlank(event.text))

\* C23 witness: the preview of the white space text ended with no pending
\* change and without message
C23_Witness ==
    /\ Previewed
    /\ event.text = TextBlank
    /\ Len(changes) = 0
    /\ ~event.info

\* C25: once no preview is in flight, the entries of the ChangeSet are those of
\* the preview requested last
C25_LaterRequestWins ==
    preview = {} => \A k \in 1..Len(changes) : changes[k].id[1] = previews

\* The step is applySingleChange of applyAll, for the next change of its copy
ApplyAllStepped == applyAll.pc = "applying" /\ event'.op = "applyAll"

\* C26: applyAll takes the entries of the ChangeSet in their order; after each
\* write the ChangeSet is the entries not yet written, in their order; at the
\* first write that fails applyAll stops, writes nothing more, and the failed
\* change and those after it are the ChangeSet
C26_ApplyAllFailFast ==
    [][/\ (applyAll.pc = "idle" /\ applyAll'.pc = "applying") => applyAll'.queue = changes
       /\ ApplyAllStepped =>
             /\ event'.change = Head(applyAll.queue)
             /\ IF event'.error = "none"
                THEN changes' = Tail(applyAll.queue)
                ELSE /\ changes' = applyAll.queue
                     /\ disk' = disk
                     /\ applyAll'.pc = "idle"]_vars

\* C27: every write to the disk is the write of a change that is an entry of
\* the ChangeSet when it is written
C27_WritesOnlyEntries ==
    [][disk' # disk => \E k \in 1..Len(changes) : changes[k] = event'.change]_vars

----------------------------------------------------------------------------
(* Claims about the path of a pending change (SpecPath) *)

\* C24: for the path p of a pending change, the path of
\* toVirtualDocumentUri(scheme, p) without its leading '/' and URI-decoded is p
C24_VirtualDocumentRoundTrip ==
    fn = "toVirtualDocumentUri" => ret.decoded = ret.stored

\* C29: the file whose trailing newlines normalizeChanges mirrors is the file
\* that is read for comparison and written, the root joined with the sanitized
\* path, and with a workspace open it is never a file outside the root
C29_MirrorsTheTargetFile ==
    fn = "existingFilePath" =>
        /\ ret.target.ok => ret.mirrored = ret.target.fsPath
        /\ ret.mirrored # <<>> =>
              /\ UnderRoot(ret.mirrored)
              /\ ret.target.ok /\ ret.target.fsPath = ret.mirrored

\* C30: sanitizeFilePath(sanitizeFilePath(x)) = sanitizeFilePath(x)
C30_SanitizeIdempotent ==
    fn = "sanitizeFilePath" => ret.again = ret.stored

----------------------------------------------------------------------------
(* Claims about re-submitted content (SpecResubmit) *)

\* C28: when the fenced body of a block is the current content of its existing
\* target file, the preview cycle yields no pending change for that path
C28_ResubmitIsNoChange ==
    fn = "setChanges" => \A k \in 1..Len(ret) : ret[k].filePath # FileA

====
